---- MODULE Spec2Model ----
(***************************************************************************)
(* Model of himetake/src/unixcw_libcw_demo.c: unixcw_libcw_demo_1 drives a *)
(* libcw generator through cw_gen_new, cw_gen_start,                       *)
(* cw_gen_enqueue_string, cw_gen_wait_for_queue_level, cw_gen_stop and     *)
(* cw_gen_delete with a goto-based unwind chain (err2, err1, err0).        *)
(* libcw is external: the outcome of each of its calls is nondeterministic *)
(* and every call is recorded in the log `calls`.                          *)
(***************************************************************************)
EXTENDS Integers, Sequences, FiniteSets, TLC

\* Number of times the caller invokes unixcw_libcw_demo_1 in sequence.
MaxRuns == 2

\* The msg arguments the caller passes.
Messages == {"SOS", ""}

NULL == 0
CW_SUCCESS == "CW_SUCCESS"
CW_FAILURE == "CW_FAILURE"
cw_return_values == {CW_SUCCESS, CW_FAILURE}

VARIABLES
    pc,             \* next statement of unixcw_libcw_demo_1, or "caller"
    msg,            \* parameter msg
    ret,            \* local ret
    cw_ret,         \* local cw_ret
    cw_gen_config,  \* local cw_gen_config
    cw_gen,         \* local cw_gen: NULL or a generator handle
    cw_debug,       \* cw_debug_object.level and cw_debug_object_dev.level
    calls,          \* libcw calls made by the current invocation
    stdout,         \* lines printed to stdout by the current invocation
    stderr,         \* lines printed to stderr by the current invocation
    live,           \* generators allocated by cw_gen_new and not yet deleted
    nalloc,         \* number of generators cw_gen_new has allocated so far
    runs            \* what each returned invocation did and returned

\* hello_world_c_2.c: hello_world_c_2_fn and hello_world_c_2_callback.
VARIABLES
    c2_pc,          \* next statement of hello_world_c_2_fn, or "caller"
    c2_callback,    \* parameter callback
    c2_ret,         \* local ret
    c2_ret2,        \* local ret2
    c2_events,      \* the prints, calls and returns so far, in order
    c2_returned,    \* hello_world_c_2_fn has returned
    c2_result       \* the value it returned

c2_vars == <<c2_pc, c2_callback, c2_ret, c2_ret2, c2_events, c2_returned,
             c2_result>>

vars == <<pc, msg, ret, cw_ret, cw_gen_config, cw_gen, cw_debug, calls,
          stdout, stderr, live, nalloc, runs, c2_pc, c2_callback, c2_ret,
          c2_ret2, c2_events, c2_returned, c2_result>>

locals == <<msg, ret, cw_ret, cw_gen_config, cw_gen>>

\* A libcw call as the backend observes it: the function, the generator it
\* was given (for cw_gen_new: the generator it returned) and its outcome.
Call(fn, gen, ok) == [fn |-> fn, gen |-> gen, ok |-> ok]

\* The zeroed configuration of line 83.
ZeroConfig == [sound_system |-> "0", sound_device |-> ""]

\* Lines 83-87: memset, CW_AUDIO_NULL, strncpy of CW_DEFAULT_NULL_DEVICE.
NullConfig ==
    [ZeroConfig EXCEPT !.sound_system = "CW_AUDIO_NULL",
                       !.sound_device = "CW_DEFAULT_NULL_DEVICE"]

\* Lines 77-80: the debug objects after the function has set their levels.
DebugEnabled == [level |-> "CW_DEBUG_DEBUG", dev_level |-> "CW_DEBUG_INFO"]

\* Line 72.
ret_init_failure == CW_FAILURE
ret_init_stale == ret
ret_init == CW_SUCCESS

\* Targets of the goto statements (lines 97, 105, 113, 121, 130) and of the
\* fall-through from the wait into the label err2 (lines 122-124) and from
\* the stop into the label err1 (lines 131-133) and from the delete into the
\* label err0 (lines 135-137).
goto_new_failed_err1 == "err1"
goto_new_failed == "err0"
goto_start_failed_err2 == "err2"
goto_start_failed_err0 == "err0"
goto_start_failed == "err1"
goto_enqueue_failed_err1 == "err1"
goto_enqueue_failed_wait == "cw_gen_wait_for_queue_level"
goto_enqueue_failed == "err2"
goto_wait_failed_retry == "cw_gen_wait_for_queue_level"
goto_wait_failed_err1 == "err1"
goto_wait_failed == "err2"
goto_stop_failed_err0 == "err0"
goto_stop_failed_again == "err2"
goto_stop_failed == "err1"
after_wait_err1 == "err1"
after_wait == "err2"
after_stop == "err1"
after_delete_err2 == "err2"
after_delete == "err0"

\* The tags of the diagnostics (lines 95, 103, 111, 119, 128).
perror_new == "cw_gen_new"
perror_start == "cw_gen_start"
perror_enqueue == "cw_gen_enqueue_string"
perror_wait_pasted == "cw_gen_enqueue_string"
perror_wait == "cw_gen_wait_for_queue_level"
fprintf_stop == "cw_gen_stop() failed."

\* Lines 127-131: the value of ret after the stop returned r.
ret_after_stop_assign(r, old) == r
ret_after_stop_keep(r, old) == old
ret_after_stop(r, old) == IF CW_SUCCESS # r THEN CW_FAILURE ELSE old

Init ==
    /\ pc = "caller"
    /\ msg = ""
    /\ ret = CW_SUCCESS
    /\ cw_ret = CW_SUCCESS
    /\ cw_gen_config = ZeroConfig
    /\ cw_gen = NULL
    /\ cw_debug = [level |-> "unset", dev_level |-> "unset"]
    /\ calls = <<>>
    /\ stdout = <<>>
    /\ stderr = <<>>
    /\ live = {}
    /\ nalloc = 0
    /\ runs = <<>>
    /\ c2_pc = "caller"
    /\ c2_callback = "none"
    /\ c2_ret = 0
    /\ c2_ret2 = 0
    /\ c2_events = <<>>
    /\ c2_returned = FALSE
    /\ c2_result = 0

\* Lines 64-87: the caller invokes the function; cw_ret and cw_gen start
\* uninitialized (any value the stack may hold), ret is set, the debug log
\* is enabled and the generator configuration is built.
Begin ==
    /\ pc = "caller"
    /\ UNCHANGED c2_vars
    /\ Len(runs) < MaxRuns
    /\ \E m \in Messages : msg' = m
    /\ ret' = ret_init
    /\ cw_ret' \in cw_return_values
    /\ cw_gen' \in {NULL} \cup (1..nalloc)
    /\ stdout' = <<"unixcw_libcw_demo_1: starting.">>
    /\ stderr' = <<>>
    /\ cw_debug' = DebugEnabled
    /\ calls' = <<Call("cw_debug_set_flags", NULL, TRUE),
                  Call("cw_debug_set_flags", NULL, TRUE)>>
    /\ cw_gen_config' = NullConfig
    /\ pc' = "cw_gen_new"
    /\ UNCHANGED <<live, nalloc, runs>>

\* Lines 93-98: create the generator; NULL is a failure.
Create ==
    /\ pc = "cw_gen_new"
    /\ UNCHANGED c2_vars
    /\ \/ /\ cw_gen' = nalloc + 1
          /\ nalloc' = nalloc + 1
          /\ live' = live \cup {nalloc + 1}
          /\ calls' = Append(calls, Call("cw_gen_new", nalloc + 1, TRUE))
          /\ pc' = "cw_gen_start"
          /\ UNCHANGED <<ret, stderr>>
       \/ /\ cw_gen' = NULL
          /\ calls' = Append(calls, Call("cw_gen_new", NULL, FALSE))
          /\ stderr' = Append(stderr, perror_new)
          /\ ret' = CW_FAILURE
          /\ pc' = goto_new_failed
          /\ UNCHANGED <<nalloc, live>>
    /\ UNCHANGED <<msg, cw_ret, cw_gen_config, cw_debug, stdout, runs>>

\* Lines 101-106: start the generator.
Start ==
    /\ pc = "cw_gen_start"
    /\ UNCHANGED c2_vars
    /\ \E r \in cw_return_values :
        /\ cw_ret' = r
        /\ calls' = Append(calls, Call("cw_gen_start", cw_gen, r = CW_SUCCESS))
        /\ IF CW_SUCCESS # r
           THEN /\ stderr' = Append(stderr, perror_start)
                /\ ret' = CW_FAILURE
                /\ pc' = goto_start_failed
           ELSE /\ pc' = "cw_gen_enqueue_string"
                /\ UNCHANGED <<ret, stderr>>
    /\ UNCHANGED <<msg, cw_gen_config, cw_gen, cw_debug, stdout, live,
                   nalloc, runs>>

\* Lines 109-114: send the message in the background.
Enqueue ==
    /\ pc = "cw_gen_enqueue_string"
    /\ UNCHANGED c2_vars
    /\ \E r \in cw_return_values :
        /\ cw_ret' = r
        /\ calls' = Append(calls,
                      Call("cw_gen_enqueue_string", cw_gen, r = CW_SUCCESS))
        /\ IF CW_SUCCESS # r
           THEN /\ stderr' = Append(stderr, perror_enqueue)
                /\ ret' = CW_FAILURE
                /\ pc' = goto_enqueue_failed
           ELSE /\ pc' = "cw_gen_wait_for_queue_level"
                /\ UNCHANGED <<ret, stderr>>
    /\ UNCHANGED <<msg, cw_gen_config, cw_gen, cw_debug, stdout, live,
                   nalloc, runs>>

\* Lines 117-122: wait for the send to complete.
Wait ==
    /\ pc = "cw_gen_wait_for_queue_level"
    /\ UNCHANGED c2_vars
    /\ \E r \in cw_return_values :
        /\ cw_ret' = r
        /\ calls' = Append(calls,
                      Call("cw_gen_wait_for_queue_level", cw_gen, r = CW_SUCCESS))
        /\ IF CW_SUCCESS # r
           THEN /\ stderr' = Append(stderr, perror_wait)
                /\ ret' = CW_FAILURE
                /\ pc' = goto_wait_failed
           ELSE /\ pc' = after_wait
                /\ UNCHANGED <<ret, stderr>>
    /\ UNCHANGED <<msg, cw_gen_config, cw_gen, cw_debug, stdout, live,
                   nalloc, runs>>

\* The stop step printing its diagnostic only when no failure was recorded.
err2_silent ==
    /\ pc = "err2"
    /\ UNCHANGED c2_vars
    /\ \E r \in cw_return_values :
        /\ cw_ret' = r
        /\ calls' = Append(calls, Call("cw_gen_stop", cw_gen, r = CW_SUCCESS))
        /\ ret' = ret_after_stop(r, ret)
        /\ IF CW_SUCCESS # r
           THEN /\ stderr' = IF ret = CW_SUCCESS
                             THEN Append(stderr, fprintf_stop)
                             ELSE stderr
                /\ pc' = goto_stop_failed
           ELSE /\ pc' = after_stop
                /\ UNCHANGED stderr
    /\ UNCHANGED <<msg, cw_gen_config, cw_gen, cw_debug, stdout, live,
                   nalloc, runs>>

\* Lines 124-131: stop the generator.
err2 ==
    /\ pc = "err2"
    /\ UNCHANGED c2_vars
    /\ \E r \in cw_return_values :
        /\ cw_ret' = r
        /\ calls' = Append(calls, Call("cw_gen_stop", cw_gen, r = CW_SUCCESS))
        /\ ret' = ret_after_stop(r, ret)
        /\ IF CW_SUCCESS # r
           THEN /\ stderr' = Append(stderr, fprintf_stop)
                /\ pc' = goto_stop_failed
           ELSE /\ pc' = after_stop
                /\ UNCHANGED stderr
    /\ UNCHANGED <<msg, cw_gen_config, cw_gen, cw_debug, stdout, live,
                   nalloc, runs>>

\* Lines 133-135: cw_gen_delete(&cw_gen) frees the generator and clears the
\* caller's pointer.
err1 ==
    /\ pc = "err1"
    /\ UNCHANGED c2_vars
    /\ calls' = Append(calls, Call("cw_gen_delete", cw_gen, TRUE))
    /\ live' = live \ {cw_gen}
    /\ cw_gen' = NULL
    /\ pc' = after_delete
    /\ UNCHANGED <<msg, ret, cw_ret, cw_gen_config, cw_debug, stdout, stderr,
                   nalloc, runs>>

\* Lines 137-138: return ret; the frame dies with its locals, the returned
\* value stays with the caller.
err0 ==
    /\ pc = "err0"
    /\ UNCHANGED c2_vars
    /\ runs' = Append(runs, [msg |-> msg, calls |-> calls, stderr |-> stderr,
                             ret |-> ret])
    /\ pc' = "caller"
    /\ msg' = ""
    /\ cw_ret' = CW_SUCCESS
    /\ cw_gen_config' = ZeroConfig
    /\ cw_gen' = NULL
    /\ UNCHANGED <<ret, cw_debug, calls, stdout, stderr, live, nalloc>>

Next ==
    \/ Begin
    \/ Create
    \/ Start
    \/ Enqueue
    \/ Wait
    \/ err2
    \/ err1
    \/ err0

Spec == Init /\ [][Next]_vars

\* The function is sequential code: once invoked, its next statement is
\* executed, and every backend call returns.  The caller need not invoke it.
FairSpec ==
    /\ Spec
    /\ WF_vars(Create)
    /\ WF_vars(Start)
    /\ WF_vars(Enqueue)
    /\ WF_vars(Wait)
    /\ WF_vars(err2)
    /\ WF_vars(err1)
    /\ WF_vars(err0)

(***************************************************************************)
(* himetake/src/hello_world_c_2.c.  The callback the caller supplies and   *)
(* hello_world_rust_2_fn are external: what they return is any int32_t,    *)
(* and hello_world_rust_2_fn may invoke the callback it is given.          *)
(***************************************************************************)

\* How often hello_world_rust_2_fn may invoke the callback it is given.
MaxCallbacks == 1

\* The callbacks a caller may supply, with the text %p prints for each.
Callbacks == {"cb_a", "cb_b"}
PointerText == [c \in Callbacks |-> IF c = "cb_a" THEN "0x401136" ELSE "0x7f3a5c0011d0"]

\* The messages hello_world_rust_2_fn may pass to the callback.
RustMessages == {"from Rust", ""}

\* Values an external function may return.
Int32Samples == {-1, 0, 7}

\* printf returns the number of characters printed, or a negative value on
\* an output error.
printf(text) == {Len(text), -1}

Event(ev, arg, val) == [ev |-> ev, arg |-> arg, val |-> val]

\* Line 69: return ret.
c2_return_ret2(r, r2) == r2
c2_return(r, r2) == r

\* Lines 56-59: the caller invokes hello_world_c_2_fn; ret and ret2 start
\* uninitialized.
hello_world_c_2_fn ==
    /\ c2_pc = "caller"
    /\ ~c2_returned
    /\ c2_callback' \in Callbacks
    /\ c2_ret' \in Int32Samples
    /\ c2_ret2' \in Int32Samples
    /\ c2_events' = <<>>
    /\ c2_pc' = "L61"
    /\ UNCHANGED <<c2_returned, c2_result>>
    /\ UNCHANGED <<pc, locals, cw_debug, calls, stdout, stderr, live, nalloc, runs>>

\* Line 61: ret = printf("Hello world 2, printed in C, callback = %p.\n").
L61 ==
    /\ c2_pc = "L61"
    /\ LET text == "Hello world 2, printed in C, callback = "
                      \o PointerText[c2_callback] \o ".\n" IN
       \E r \in printf(text) :
          /\ c2_ret' = r
          /\ c2_events' = Append(c2_events, Event("printf", text, r))
    /\ c2_pc' = "L63"
    /\ UNCHANGED <<c2_callback, c2_ret2, c2_returned, c2_result>>
    /\ UNCHANGED <<pc, locals, cw_debug, calls, stdout, stderr, live, nalloc, runs>>

\* Line 63: callback("from C") is entered.
L63_call ==
    /\ c2_pc = "L63"
    /\ c2_events' = Append(c2_events, Event("call", c2_callback, "from C"))
    /\ c2_pc' = "in_callback"
    /\ UNCHANGED <<c2_callback, c2_ret, c2_ret2, c2_returned, c2_result>>
    /\ UNCHANGED <<pc, locals, cw_debug, calls, stdout, stderr, live, nalloc, runs>>

\* Line 63: the callback returns and ret2 takes its value.
L63_return ==
    /\ c2_pc = "in_callback"
    /\ \E v \in Int32Samples :
          /\ c2_ret2' = v
          /\ c2_events' = Append(c2_events, Event("return", c2_callback, v))
    /\ c2_pc' = "L64"
    /\ UNCHANGED <<c2_callback, c2_ret, c2_returned, c2_result>>
    /\ UNCHANGED <<pc, locals, cw_debug, calls, stdout, stderr, live, nalloc, runs>>

\* Line 64: printf("hello_world_c_2_fn callback; ret2 = %d.\n"); its result
\* is discarded.
L64 ==
    /\ c2_pc = "L64"
    /\ LET text == "hello_world_c_2_fn callback; ret2 = "
                      \o ToString(c2_ret2) \o ".\n" IN
       \E r \in printf(text) :
          c2_events' = Append(c2_events, Event("printf", text, r))
    /\ c2_pc' = "L66"
    /\ UNCHANGED <<c2_callback, c2_ret, c2_ret2, c2_returned, c2_result>>
    /\ UNCHANGED <<pc, locals, cw_debug, calls, stdout, stderr, live, nalloc, runs>>

\* Line 66: hello_world_rust_2_fn(hello_world_c_2_callback) is entered.
L66_call ==
    /\ c2_pc = "L66"
    /\ c2_events' = Append(c2_events,
          Event("call", "hello_world_rust_2_fn", "hello_world_c_2_callback"))
    /\ c2_pc' = "in_rust"
    /\ UNCHANGED <<c2_callback, c2_ret, c2_ret2, c2_returned, c2_result>>
    /\ UNCHANGED <<pc, locals, cw_debug, calls, stdout, stderr, live, nalloc, runs>>

\* The number of times hello_world_c_2_callback has run.
CallbackRuns ==
    Cardinality({i \in DOMAIN c2_events :
                    c2_events[i].ev = "hello_world_c_2_callback"})

\* Lines 72-80: hello_world_c_2_callback(msg), invoked from
\* hello_world_rust_2_fn, prints msg and returns what printf returned.
hello_world_c_2_callback ==
    /\ c2_pc = "in_rust"
    /\ CallbackRuns < MaxCallbacks
    /\ \E m \in RustMessages :
          LET text == "Hello world 2, printed in C, " \o m \o ".\n" IN
          \E r \in printf(text) :
             c2_events' = Append(c2_events,
                             Event("hello_world_c_2_callback", text, r))
    /\ UNCHANGED <<c2_pc, c2_callback, c2_ret, c2_ret2, c2_returned, c2_result>>
    /\ UNCHANGED <<pc, locals, cw_debug, calls, stdout, stderr, live, nalloc, runs>>

\* Line 66: hello_world_rust_2_fn returns and ret2 takes its value.
L66_return ==
    /\ c2_pc = "in_rust"
    /\ \E v \in Int32Samples :
          /\ c2_ret2' = v
          /\ c2_events' = Append(c2_events,
                             Event("return", "hello_world_rust_2_fn", v))
    /\ c2_pc' = "L67"
    /\ UNCHANGED <<c2_callback, c2_ret, c2_returned, c2_result>>
    /\ UNCHANGED <<pc, locals, cw_debug, calls, stdout, stderr, live, nalloc, runs>>

\* Line 67: printf("hello_world_rust_2_fn; ret2 = %d.\n"); its result is
\* discarded.
L67 ==
    /\ c2_pc = "L67"
    /\ LET text == "hello_world_rust_2_fn; ret2 = "
                      \o ToString(c2_ret2) \o ".\n" IN
       \E r \in printf(text) :
          c2_events' = Append(c2_events, Event("printf", text, r))
    /\ c2_pc' = "L69"
    /\ UNCHANGED <<c2_callback, c2_ret, c2_ret2, c2_returned, c2_result>>
    /\ UNCHANGED <<pc, locals, cw_debug, calls, stdout, stderr, live, nalloc, runs>>

\* Line 69: return ret.
L69 ==
    /\ c2_pc = "L69"
    /\ c2_result' = c2_return(c2_ret, c2_ret2)
    /\ c2_returned' = TRUE
    /\ c2_pc' = "caller"
    /\ UNCHANGED <<c2_callback, c2_ret, c2_ret2, c2_events>>
    /\ UNCHANGED <<pc, locals, cw_debug, calls, stdout, stderr, live, nalloc, runs>>

NextHello ==
    \/ hello_world_c_2_fn
    \/ L61
    \/ L63_call
    \/ L63_return
    \/ L64
    \/ L66_call
    \/ hello_world_c_2_callback
    \/ L66_return
    \/ L67
    \/ L69

SpecHello == Init /\ [][NextHello]_vars

TypeOK ==
    /\ pc \in {"caller", "cw_gen_new", "cw_gen_start", "cw_gen_enqueue_string",
               "cw_gen_wait_for_queue_level", "err2", "err1", "err0"}
    /\ msg \in Messages
    /\ ret \in cw_return_values
    /\ cw_ret \in cw_return_values
    /\ cw_gen \in 0..nalloc
    /\ live \subseteq 1..nalloc
    /\ nalloc \in 0..MaxRuns
    /\ Len(runs) <= MaxRuns
    /\ c2_pc \in {"caller", "L61", "L63", "in_callback", "L64", "L66",
                  "in_rust", "L67", "L69"}
    /\ c2_callback \in Callbacks \cup {"none"}
    /\ c2_ret \in Int
    /\ c2_ret2 \in Int32Samples
    /\ c2_returned \in BOOLEAN

(***************************************************************************)
(* Reading the call logs.                                                  *)
(***************************************************************************)
Count(log, fn) == Cardinality({i \in DOMAIN log : log[i].fn = fn})
Called(log, fn) == \E i \in DOMAIN log : log[i].fn = fn
Ok(log, fn) == \E i \in DOMAIN log : log[i].fn = fn /\ log[i].ok
Failed(log, fn) == \E i \in DOMAIN log : log[i].fn = fn /\ ~log[i].ok
NoFailure(log) == \A i \in DOMAIN log : log[i].ok

\* The stages in acquire-to-release order and the diagnostic of each.
Stages == <<"cw_gen_new", "cw_gen_start", "cw_gen_enqueue_string",
            "cw_gen_wait_for_queue_level", "cw_gen_stop">>
Diagnostic == <<"cw_gen_new", "cw_gen_start", "cw_gen_enqueue_string",
                "cw_gen_wait_for_queue_level", "cw_gen_stop() failed.">>
Lifecycle == Stages \o <<"cw_gen_delete">>
LifecycleFns == {Lifecycle[k] : k \in DOMAIN Lifecycle}

\* The first stage that failed in a log, 0 when none did.
FirstFailed(log) ==
    IF \E k \in DOMAIN Stages : Failed(log, Stages[k])
    THEN CHOOSE k \in DOMAIN Stages :
            /\ Failed(log, Stages[k])
            /\ \A j \in 1..(k - 1) : ~Failed(log, Stages[j])
    ELSE 0

\* The calls of a log that are lifecycle calls, in order.
GenCalls(log) == SelectSeq(log, LAMBDA c : c.fn \in LifecycleFns)
FnsOf(log) == [i \in DOMAIN log |-> log[i].fn]

\* C1: destroy is called exactly once in an invocation whose create
\* succeeded and never in one whose create failed, whatever the other
\* calls returned; the generator deleted is the one created, it is never
\* deleted twice and none is left allocated when the function has returned.
C1_DestroyExactlyOnce ==
    /\ \A i \in DOMAIN runs :
        LET log == runs[i].calls IN
        /\ Count(log, "cw_gen_delete") = IF Ok(log, "cw_gen_new") THEN 1 ELSE 0
        /\ \A j \in DOMAIN log :
              log[j].fn = "cw_gen_delete" =>
                 \E k \in 1..(j - 1) : log[k] = Call("cw_gen_new", log[j].gen, TRUE)
    /\ pc # "caller" => Count(calls, "cw_gen_delete") <= 1
    /\ pc = "caller" => live = {}

C1_Witness ==
    \E i \in DOMAIN runs :
        /\ Ok(runs[i].calls, "cw_gen_new")
        /\ Failed(runs[i].calls, "cw_gen_wait_for_queue_level")
        /\ Failed(runs[i].calls, "cw_gen_stop")
        /\ Count(runs[i].calls, "cw_gen_delete") = 1

\* C2: stop is called if and only if start was called and succeeded: never
\* after a failed create or start, always after a successful start even if
\* enqueue or wait failed.
C2_StopIffStarted ==
    /\ \A i \in DOMAIN runs :
          Called(runs[i].calls, "cw_gen_stop") <=> Ok(runs[i].calls, "cw_gen_start")
    /\ pc # "caller" =>
          (Called(calls, "cw_gen_stop") => Ok(calls, "cw_gen_start"))

C2_Witness ==
    \E i, j \in DOMAIN runs :
        /\ Failed(runs[i].calls, "cw_gen_start")
        /\ ~Called(runs[i].calls, "cw_gen_stop")
        /\ Failed(runs[j].calls, "cw_gen_enqueue_string")
        /\ Called(runs[j].calls, "cw_gen_stop")

\* C3: the failure an invocation reports is that of the first stage that
\* failed: it returns CW_FAILURE and its first diagnostic is that stage's;
\* a stop failure after an enqueue or wait failure changes neither.
C3_FirstFailureReported ==
    \A i \in DOMAIN runs :
        LET k == FirstFailed(runs[i].calls) IN
        k # 0 =>
            /\ runs[i].ret = CW_FAILURE
            /\ Len(runs[i].stderr) >= 1
            /\ runs[i].stderr[1] = Diagnostic[k]

C3_Witness ==
    \E i \in DOMAIN runs :
        /\ Failed(runs[i].calls, "cw_gen_enqueue_string")
        /\ Failed(runs[i].calls, "cw_gen_stop")
        /\ runs[i].ret = CW_FAILURE
        /\ runs[i].stderr[1] = "cw_gen_enqueue_string"

\* C4: when every call succeeds the function returns CW_SUCCESS and the
\* backend sees create, start, enqueue, wait, stop, destroy once each, in
\* that order, on one generator, with no other call between them.
C4_AllSucceed ==
    \A i \in DOMAIN runs :
        LET log == runs[i].calls
            n == Len(log) IN
        NoFailure(log) =>
            /\ runs[i].ret = CW_SUCCESS
            /\ n >= 6
            /\ [k \in 1..6 |-> log[n - 6 + k].fn] = Lifecycle
            /\ \A k \in 1..(n - 6) : log[k].fn \notin LifecycleFns
            /\ \A k \in (n - 5)..n : log[k].gen = log[n].gen /\ log[k].gen # NULL

C4_Witness ==
    \E i \in DOMAIN runs :
        /\ NoFailure(runs[i].calls)
        /\ Called(runs[i].calls, "cw_gen_delete")
        /\ runs[i].ret = CW_SUCCESS

\* C5: when create fails the function reports the create failure and makes
\* no start, enqueue, wait, stop or destroy call.
C5_CreateFailed ==
    /\ \A i \in DOMAIN runs :
        LET log == runs[i].calls IN
        Failed(log, "cw_gen_new") =>
            /\ runs[i].ret = CW_FAILURE
            /\ runs[i].stderr = <<"cw_gen_new">>
            /\ FnsOf(GenCalls(log)) = <<"cw_gen_new">>
    /\ pc # "caller" /\ Failed(calls, "cw_gen_new") =>
          FnsOf(GenCalls(calls)) = <<"cw_gen_new">>

C5_Witness ==
    \E i \in DOMAIN runs :
        /\ Failed(runs[i].calls, "cw_gen_new")
        /\ runs[i].ret = CW_FAILURE

\* C6: when create succeeds and start fails the function reports the start
\* failure, calls destroy exactly once and calls none of enqueue, wait, stop.
C6_StartFailed ==
    \A i \in DOMAIN runs :
        LET log == runs[i].calls IN
        Ok(log, "cw_gen_new") /\ Failed(log, "cw_gen_start") =>
            /\ runs[i].ret = CW_FAILURE
            /\ runs[i].stderr = <<"cw_gen_start">>
            /\ Count(log, "cw_gen_delete") = 1
            /\ ~Called(log, "cw_gen_enqueue_string")
            /\ ~Called(log, "cw_gen_wait_for_queue_level")
            /\ ~Called(log, "cw_gen_stop")

C6_Witness ==
    \E i \in DOMAIN runs :
        /\ Ok(runs[i].calls, "cw_gen_new")
        /\ Failed(runs[i].calls, "cw_gen_start")
        /\ Called(runs[i].calls, "cw_gen_delete")

\* C7: when create and start succeed and enqueue fails the function reports
\* the enqueue failure, never calls wait, and calls stop once and then
\* destroy once.
C7_EnqueueFailed ==
    \A i \in DOMAIN runs :
        LET log == runs[i].calls IN
        Ok(log, "cw_gen_new") /\ Ok(log, "cw_gen_start")
            /\ Failed(log, "cw_gen_enqueue_string") =>
            /\ runs[i].ret = CW_FAILURE
            /\ runs[i].stderr[1] = "cw_gen_enqueue_string"
            /\ ~Called(log, "cw_gen_wait_for_queue_level")
            /\ FnsOf(GenCalls(log)) =
                  <<"cw_gen_new", "cw_gen_start", "cw_gen_enqueue_string",
                    "cw_gen_stop", "cw_gen_delete">>

C7_Witness ==
    \E i \in DOMAIN runs :
        /\ Failed(runs[i].calls, "cw_gen_enqueue_string")
        /\ Ok(runs[i].calls, "cw_gen_stop")
        /\ Called(runs[i].calls, "cw_gen_delete")

\* C8: when create, start, enqueue and wait succeed and stop fails the
\* function returns a failure, its diagnostic is the stop failure, and
\* destroy is called exactly once, after the failed stop.
C8_StopFailed ==
    \A i \in DOMAIN runs :
        LET log == runs[i].calls IN
        Ok(log, "cw_gen_wait_for_queue_level") /\ Failed(log, "cw_gen_stop") =>
            /\ Ok(log, "cw_gen_new") /\ Ok(log, "cw_gen_start")
            /\ Ok(log, "cw_gen_enqueue_string")
            /\ runs[i].ret = CW_FAILURE
            /\ runs[i].stderr = <<"cw_gen_stop() failed.">>
            /\ Count(log, "cw_gen_delete") = 1
            /\ \A j, k \in DOMAIN log :
                  log[j].fn = "cw_gen_stop" /\ log[k].fn = "cw_gen_delete" => j < k

C8_Witness ==
    \E i \in DOMAIN runs :
        /\ Ok(runs[i].calls, "cw_gen_wait_for_queue_level")
        /\ Failed(runs[i].calls, "cw_gen_stop")
        /\ Count(runs[i].calls, "cw_gen_delete") = 1

\* C9 as stated: two invocations whose first failing call differs return
\* different values.
C9_ReturnDistinguishesStage ==
    \A i, j \in DOMAIN runs :
        /\ FirstFailed(runs[i].calls) # 0
        /\ FirstFailed(runs[j].calls) # 0
        /\ FirstFailed(runs[i].calls) # FirstFailed(runs[j].calls)
        => runs[i].ret # runs[j].ret

\* C9 as amended: two invocations whose first failing call differs return
\* the same value CW_FAILURE; they differ in the first diagnostic they
\* print, which names the call that failed.
C9_DiagnosticDistinguishesStage ==
    \A i, j \in DOMAIN runs :
        /\ FirstFailed(runs[i].calls) # 0
        /\ FirstFailed(runs[j].calls) # 0
        /\ FirstFailed(runs[i].calls) # FirstFailed(runs[j].calls)
        => /\ runs[i].ret = CW_FAILURE
           /\ runs[j].ret = CW_FAILURE
           /\ runs[i].stderr[1] # runs[j].stderr[1]

C9_Witness ==
    \E i, j \in DOMAIN runs :
        /\ FirstFailed(runs[i].calls) = 3
        /\ FirstFailed(runs[j].calls) = 4
        /\ runs[i].ret = runs[j].ret

\* C10: the function returns CW_SUCCESS if and only if none of the calls
\* it made failed; a failure of stop alone makes it return a failure.
C10_SuccessIffNoFailure ==
    \A i \in DOMAIN runs :
        runs[i].ret = CW_SUCCESS <=> NoFailure(runs[i].calls)

C10_Witness ==
    \E i, j \in DOMAIN runs :
        /\ runs[i].ret = CW_SUCCESS
        /\ Called(runs[i].calls, "cw_gen_stop")
        /\ FirstFailed(runs[j].calls) = 5
        /\ runs[j].ret = CW_FAILURE

\* What an invocation does as a function of its own outcomes alone: the
\* lifecycle calls it makes given the first stage that failed.
OwnLifecycle(k) ==
    CASE k = 1 -> <<"cw_gen_new">>
      [] k = 2 -> <<"cw_gen_new", "cw_gen_start", "cw_gen_delete">>
      [] k = 3 -> <<"cw_gen_new", "cw_gen_start", "cw_gen_enqueue_string",
                    "cw_gen_stop", "cw_gen_delete">>
      [] OTHER -> Lifecycle

\* The diagnostics it prints given the first stage that failed and whether
\* the stop failed.
OwnDiagnostics(k, stopFailed) ==
    CASE k = 0 -> <<>>
      [] k \in {3, 4} /\ stopFailed -> <<Diagnostic[k], Diagnostic[5]>>
      [] OTHER -> <<Diagnostic[k]>>

\* The generators a log mentions.
GensOf(log) == {log[k].gen : k \in DOMAIN log} \ {NULL}

\* C11: successive invocations are independent lifecycles: the calls, the
\* diagnostics and the result of each invocation, whether first or later,
\* are determined by the outcomes of its own calls, and an invocation only
\* passes the backend the generator it created itself, which no other
\* invocation touches.
C11_IndependentLifecycles ==
    \A i \in DOMAIN runs :
        LET log == runs[i].calls
            k == FirstFailed(log) IN
        /\ FnsOf(GenCalls(log)) = OwnLifecycle(k)
        /\ runs[i].stderr = OwnDiagnostics(k, Failed(log, "cw_gen_stop"))
        /\ runs[i].ret = IF k = 0 THEN CW_SUCCESS ELSE CW_FAILURE
        /\ Cardinality(GensOf(log)) <= 1
        /\ \A g \in GensOf(log) : Call("cw_gen_new", g, TRUE) = GenCalls(log)[1]
        /\ \A j \in DOMAIN runs : i # j => GensOf(log) \cap GensOf(runs[j].calls) = {}

C11_Witness ==
    /\ Len(runs) >= 2
    /\ FirstFailed(runs[1].calls) = 4
    /\ Failed(runs[1].calls, "cw_gen_stop")
    /\ NoFailure(runs[2].calls)
    /\ runs[2].ret = CW_SUCCESS
    /\ GensOf(runs[1].calls) # GensOf(runs[2].calls)

\* C12: no backend call is retried: within one invocation each of create,
\* start, enqueue, wait, stop and destroy is called at most once, whatever
\* the calls return.
C12_NoRetry ==
    /\ \A i \in DOMAIN runs : \A fn \in LifecycleFns : Count(runs[i].calls, fn) <= 1
    /\ pc # "caller" => \A fn \in LifecycleFns : Count(calls, fn) <= 1

C12_Witness ==
    \E i \in DOMAIN runs :
        /\ \A fn \in LifecycleFns : Count(runs[i].calls, fn) = 1
        /\ ~NoFailure(runs[i].calls)

\* C13: a stop failure always prints the stop diagnostic, also after an
\* enqueue or wait failure of the same invocation; then the earlier stage's
\* diagnostic and the stop diagnostic are both printed, in that order.
C13_StopFailureSurfaced ==
    \A i \in DOMAIN runs :
        LET log == runs[i].calls
            err == runs[i].stderr
            k == FirstFailed(log) IN
        Failed(log, "cw_gen_stop") =>
            /\ Len(err) >= 1
            /\ err[Len(err)] = "cw_gen_stop() failed."
            /\ k \in {3, 4} => err = <<Diagnostic[k], "cw_gen_stop() failed.">>

C13_Witness ==
    \E i \in DOMAIN runs :
        /\ FirstFailed(runs[i].calls) = 3
        /\ Failed(runs[i].calls, "cw_gen_stop")
        /\ Len(runs[i].stderr) = 2

\* C14: wait is called if and only if enqueue was called and succeeded, and
\* a wait failure is followed by stop once, then destroy once, then a
\* failure return, as an enqueue failure is.
C14_WaitIffEnqueued ==
    /\ \A i \in DOMAIN runs :
        LET log == runs[i].calls
            gen == FnsOf(GenCalls(log)) IN
        /\ Called(log, "cw_gen_wait_for_queue_level")
              <=> Ok(log, "cw_gen_enqueue_string")
        /\ Failed(log, "cw_gen_wait_for_queue_level") =>
              /\ SubSeq(gen, 5, Len(gen)) = <<"cw_gen_stop", "cw_gen_delete">>
              /\ gen[4] = "cw_gen_wait_for_queue_level"
              /\ runs[i].ret = CW_FAILURE
        /\ Failed(log, "cw_gen_enqueue_string") =>
              /\ SubSeq(gen, 4, Len(gen)) = <<"cw_gen_stop", "cw_gen_delete">>
              /\ gen[3] = "cw_gen_enqueue_string"
              /\ runs[i].ret = CW_FAILURE
    /\ pc # "caller" =>
          (Called(calls, "cw_gen_wait_for_queue_level")
              => Ok(calls, "cw_gen_enqueue_string"))

C14_Witness ==
    \E i, j \in DOMAIN runs :
        /\ Failed(runs[i].calls, "cw_gen_wait_for_queue_level")
        /\ Ok(runs[i].calls, "cw_gen_stop")
        /\ Failed(runs[j].calls, "cw_gen_enqueue_string")
        /\ ~Called(runs[j].calls, "cw_gen_wait_for_queue_level")

\* The cleanup calls a log shows after its first failed call.
CleanupFns == {"cw_gen_stop", "cw_gen_delete"}
Cleanup(log) ==
    LET f == CHOOSE j \in DOMAIN log :
                 ~log[j].ok /\ \A k \in 1..(j - 1) : log[k].ok IN
    {log[j].fn : j \in {n \in DOMAIN log : n > f}} \cap CleanupFns

\* C15 as stated: the cleanup calls after a failure at stage k are a subset
\* of the cleanup calls after a failure at stage k-1.
C15_CleanupShrinks ==
    \A i, j \in DOMAIN runs :
        /\ FirstFailed(runs[i].calls) >= 2
        /\ FirstFailed(runs[j].calls) = FirstFailed(runs[i].calls) - 1
        => Cleanup(runs[i].calls) \subseteq Cleanup(runs[j].calls)

\* C15 as amended: over create, start, enqueue, wait the cleanup calls after
\* a failure at stage k-1 are a subset of those after a failure at stage k
\* (the later the failure, the more is owed); the cleanup after a failure of
\* stop is a subset of that after a failure of wait.
C15_CleanupGrows ==
    \A i, j \in DOMAIN runs :
        /\ FirstFailed(runs[i].calls) >= 2
        /\ FirstFailed(runs[j].calls) = FirstFailed(runs[i].calls) - 1
        => IF FirstFailed(runs[i].calls) = 5
           THEN Cleanup(runs[i].calls) \subseteq Cleanup(runs[j].calls)
           ELSE Cleanup(runs[j].calls) \subseteq Cleanup(runs[i].calls)

C15_Witness ==
    \E i, j \in DOMAIN runs :
        /\ FirstFailed(runs[i].calls) = 3
        /\ FirstFailed(runs[j].calls) = 2
        /\ Cleanup(runs[i].calls) = {"cw_gen_stop", "cw_gen_delete"}
        /\ Cleanup(runs[j].calls) = {"cw_gen_delete"}

\* A log in which every call on a generator comes after the create that
\* returned that generator and nothing follows its destroy.
HandleDiscipline(log) ==
    /\ \A j \in DOMAIN log :
          log[j].fn \in LifecycleFns \ {"cw_gen_new"} =>
              /\ log[j].gen # NULL
              /\ \E k \in 1..(j - 1) : log[k] = Call("cw_gen_new", log[j].gen, TRUE)
    /\ \A j \in DOMAIN log :
          log[j].fn = "cw_gen_delete" =>
              \A k \in DOMAIN log : k > j => log[k].fn \notin LifecycleFns

\* C16: in an invocation whose create succeeded destroy is the last call on
\* the generator: no start, enqueue, wait or stop follows it, and no call is
\* made on a generator before create has returned it non-null.
C16_DestroyLast ==
    /\ \A i \in DOMAIN runs :
        LET log == runs[i].calls IN
        /\ HandleDiscipline(log)
        /\ Ok(log, "cw_gen_new") => log[Len(log)].fn = "cw_gen_delete"
    /\ pc # "caller" => HandleDiscipline(calls)

C16_Witness ==
    \E i \in DOMAIN runs :
        LET log == runs[i].calls IN
        /\ FirstFailed(log) = 5
        /\ log[Len(log)].fn = "cw_gen_delete"
        /\ log[Len(log) - 1].fn = "cw_gen_stop"

\* The position of each statement in the text of the function.
Position ==
    [l \in {"cw_gen_new", "cw_gen_start", "cw_gen_enqueue_string",
            "cw_gen_wait_for_queue_level", "err2", "err1", "err0"} |->
        CASE l = "cw_gen_new" -> 1
          [] l = "cw_gen_start" -> 2
          [] l = "cw_gen_enqueue_string" -> 3
          [] l = "cw_gen_wait_for_queue_level" -> 4
          [] l = "err2" -> 5
          [] l = "err1" -> 6
          [] l = "err0" -> 7]

\* C17: given that every backend call returns, every invocation eventually
\* returns to its caller whatever the calls return, and control only ever
\* moves forwards through the function (every goto to err2, err1, err0 is a
\* forward jump), so no call site is reached twice.
C17_EventuallyReturns ==
    /\ [][pc # "caller" /\ pc' # "caller" => Position[pc] < Position[pc']]_vars
    /\ [][pc # "caller" /\ pc' = "caller" => pc = "err0"]_vars
    /\ (pc # "caller") ~> (pc = "caller")

C17_Witness ==
    /\ pc = "caller"
    /\ \E i \in DOMAIN runs :
          /\ Failed(runs[i].calls, "cw_gen_start")
          /\ runs[i].ret = CW_FAILURE
    /\ \E i \in DOMAIN runs :
          /\ Failed(runs[i].calls, "cw_gen_wait_for_queue_level")
          /\ Failed(runs[i].calls, "cw_gen_stop")

\* The positions in the event log of the events of one kind.
EventsAt(ev, arg) ==
    {i \in DOMAIN c2_events : c2_events[i].ev = ev /\ c2_events[i].arg = arg}

\* C18: hello_world_c_2_fn invokes the callback it was given exactly once,
\* calls hello_world_rust_2_fn exactly once, after that callback has
\* returned, passing hello_world_c_2_callback, and returns the result of
\* its first printf whatever the callback and hello_world_rust_2_fn return.
C18_CallbackThenRust ==
    /\ c2_returned =>
        /\ Cardinality({i \in DOMAIN c2_events :
              c2_events[i].ev = "call" /\ c2_events[i].arg = c2_callback}) = 1
        /\ Cardinality({i \in DOMAIN c2_events :
              c2_events[i].ev = "call"
                 /\ c2_events[i].arg = "hello_world_rust_2_fn"}) = 1
        /\ \A i \in EventsAt("call", "hello_world_rust_2_fn") :
              /\ c2_events[i].val = "hello_world_c_2_callback"
              /\ \E j \in EventsAt("return", c2_callback) : j < i
        /\ c2_events[1].ev = "printf"
        /\ c2_result = c2_events[1].val
    /\ \A i \in EventsAt("call", "hello_world_rust_2_fn") :
          \E j, k \in DOMAIN c2_events :
             /\ j < k /\ k < i
             /\ c2_events[j] = Event("call", c2_callback, "from C")
             /\ c2_events[k].ev = "return" /\ c2_events[k].arg = c2_callback

C18_Witness ==
    /\ c2_returned
    /\ CallbackRuns = 1
    /\ \E i \in EventsAt("return", c2_callback) : c2_events[i].val # c2_result
    /\ \E i \in EventsAt("return", "hello_world_rust_2_fn") :
          c2_events[i].val # c2_result
====
